---- MODULE Spec2Model ----
(***************************************************************************)
(* Model of app2.py: a Streamlit session holding a chat history and a     *)
(* database handle, the connect handler, and one chat turn                 *)
(* (handle_user_query -> get_response -> LangChain chain).                 *)
(*                                                                         *)
(* Every Streamlit interaction re-runs main() from the top, single         *)
(* threaded; a rerun is either a press of the connect button or a chat     *)
(* submission.  An exception that escapes main() ends that rerun only:     *)
(* Streamlit keeps st.session_state and runs main() again on the next      *)
(* interaction.                                                            *)
(*                                                                         *)
(* RunnablePassthrough.assign(k1=..., k2=...) wraps a RunnableParallel;    *)
(* its invoke submits every keyed step to a thread pool, in the order of   *)
(* the keys, and then collects the results in that same order.  The two    *)
(* steps of app2.py:96-99 are therefore modelled as two jobs that run      *)
(* between a fork and a join.                                              *)
(***************************************************************************)
EXTENDS Integers, Sequences, FiniteSets, TLC

VARIABLES
    chat_history,   \* st.session_state.chat_history: sequence of messages
    db,             \* st.session_state.db: {} while the key is absent, else {handle}
    pc,             \* position of the running script
    user_query,     \* the submitted text of the current turn ("" outside a turn)
    fn_db,          \* the db argument get_response and its closures hold
    prompt1,        \* bindings rendered into the SQL-generation prompt
    gen_query,      \* output of sql_chain (the generated SQL), vars["query"]
    schema_job,     \* job of the key schema= in .assign (app2.py:97)
    response_job,   \* job of the key response= in .assign (app2.py:98)
    assigned,       \* values the two jobs returned
    prompt2,        \* bindings rendered into the answer-synthesis prompt
    answer,         \* return value of get_response
    errors,         \* st.error messages emitted by the current script run
    steps,          \* operations started by the turn in progress, in start order
    inflight,       \* operations on the database handle currently running
    failed,         \* steps of the current turn that raised
    exc,            \* exception that escaped the last script run ("none" if none)
    last_run,       \* what the last script run was: "none", "connect" or "query"
    init_result,    \* what init_database returned in the last connect run
    last_outcome,   \* history: what the driver did in the last connect run
    submitted,      \* history: texts passed to handle_user_query, in order
    returned,       \* history: values get_response returned, in order
    ok_handles,     \* history: handles produced by successful connects, in order
    probed,         \* history: handles whose probe in init_database succeeded
    n_connects,     \* number of presses of the connect button so far
    q_in,           \* clean_sql_query: argument
    q_out           \* clean_sql_query: result (Unapplied before the call)

vars == <<chat_history, db, pc, user_query, fn_db, prompt1, gen_query, schema_job,
          response_job, assigned, prompt2, answer, errors, steps, inflight,
          failed, exc, last_run, init_result, last_outcome, submitted, returned,
          ok_handles, probed, n_connects, q_in, q_out>>

sessionVars == <<chat_history, db, pc, user_query, fn_db, prompt1, gen_query,
                 schema_job, response_job, assigned, prompt2, answer, errors,
                 steps, inflight, failed, exc, last_run, init_result,
                 last_outcome, submitted, returned, ok_handles, probed, n_connects>>

(***************************************************************************)
(* Bounds                                                                  *)
(***************************************************************************)
MaxTurns == 2
MaxConnects == 2
NParams == 2
MaxLen == 4

(***************************************************************************)
(* Values                                                                  *)
(***************************************************************************)
BS == "\\"
Chars == {BS, "a", ";"}
Strings(n) == UNION {[1..k -> Chars] : k \in 0..n}

Params == 1..NParams
Texts == {"m1", "m2"}
Completions == {"ans"}
GeneratedQueries == {<<"a", ";">>, <<BS, "a", BS, ";">>}
SchemaText == "schema"
Rows == "rows"
NotRendered1 == [schema |-> "-", question |-> ""]
NotRendered == [schema |-> "-", query |-> <<>>, response |-> "-"]
NotAssigned == [schema |-> "-", response |-> "-"]

Greeting == [type |-> "AI", content |-> "Hola, que quieres saber sobre tus datos?"]
HumanMessage(c) == [type |-> "Human", content |-> c]
AIMessage(c) == [type |-> "AI", content |-> c]

E_CONFIG == "Error en la configuracion de la base de datos"
E_UNEXPECTED == "Error inesperado"
E_CONNECT == "Error en la conexion a la base de datos"
E_SCHEMA == "Error al obtener el esquema de la base de datos"
E_SQL == "Error en la consulta SQL"
E_RUN == "Error inesperado al ejecutar la consulta"
E_PROCESS == "Error inesperado en el procesamiento"

(***************************************************************************)
(* clean_sql_query: query.replace("\\", "")                                *)
(***************************************************************************)
\* StripFirst is the faulty variant query.replace("\\", "", 1).
RECURSIVE StripFirst(_)
StripFirst(query) ==
    IF query = <<>> THEN <<>>
    ELSE IF Head(query) = BS THEN Tail(query)
    ELSE <<Head(query)>> \o StripFirst(Tail(query))

RECURSIVE clean_sql_query(_)
clean_sql_query(query) ==
    IF query = <<>> THEN <<>>
    ELSE IF Head(query) = BS THEN clean_sql_query(Tail(query))
    ELSE <<Head(query)>> \o clean_sql_query(Tail(query))

(***************************************************************************)
(* init_database: from_uri, then get_table_info as a probe.  outcome is    *)
(* what the driver does for these parameters.                              *)
(***************************************************************************)
ConnectOutcomes ==
    {"ok", "from_uri:ProgrammingError", "from_uri:Exception",
     "probe:ProgrammingError", "probe:Exception"}

init_database(p, outcome) ==
    IF outcome = "ok"
    THEN [result |-> {p}, errors |-> <<>>]
    ELSE IF outcome \in {"from_uri:ProgrammingError", "probe:ProgrammingError"}
    THEN [result |-> {}, errors |-> <<E_CONFIG>>]
    ELSE [result |-> {}, errors |-> <<E_UNEXPECTED>>]

(***************************************************************************)
(* configure_streamlit, the branch taken when "Conectar" was pressed       *)
(***************************************************************************)
\* StoreAlways and StoreOnce are faulty variants of Store (no "if db:"; a
\* handle once stored is kept), ButtonErrorsNone of ButtonErrors.
StoreAlways(cur, r) == r
StoreOnce(cur, r) == IF cur = {} THEN r ELSE cur
Store(cur, r) == IF r # {} THEN r ELSE cur

ButtonErrorsNone(r) == <<>>
ButtonErrors(r) == IF r # {} THEN <<>> ELSE <<E_CONNECT>>

Connect(p, outcome) ==
    /\ pc = "idle"
    /\ n_connects < MaxConnects
    /\ LET r == init_database(p, outcome) IN
        /\ init_result' = r.result
        /\ db' = Store(db, r.result)
        /\ errors' = r.errors \o ButtonErrors(r.result)
        /\ ok_handles' = IF r.result # {} THEN ok_handles \o <<p>> ELSE ok_handles
    /\ last_outcome' = outcome
    /\ probed' = IF outcome = "ok" THEN probed \cup {p} ELSE probed
    /\ n_connects' = n_connects + 1
    /\ exc' = "none"
    /\ last_run' = "connect"
    /\ UNCHANGED <<chat_history, pc, user_query, fn_db, prompt1, gen_query,
                   schema_job, response_job, assigned, prompt2, answer, steps,
                   inflight, failed, submitted, returned, q_in, q_out>>

(***************************************************************************)
(* main -> handle_user_query: a non-empty chat submission                  *)
(***************************************************************************)
Step(op, h, sql) == [op |-> op, h |-> h, sql |-> sql]

Submit(text) ==
    /\ pc = "idle"
    /\ Len(submitted) < MaxTurns
    /\ chat_history' = Append(chat_history, HumanMessage(text))
    /\ user_query' = text
    /\ submitted' = Append(submitted, text)
    /\ last_run' = "query"
    /\ errors' = <<>>
    /\ exc' = "none"
    /\ fn_db' = {}
    /\ prompt1' = NotRendered1
    /\ gen_query' = <<>>
    /\ schema_job' = "none"
    /\ response_job' = "none"
    /\ assigned' = NotAssigned
    /\ prompt2' = NotRendered
    /\ answer' = ""
    /\ steps' = <<>>
    /\ failed' = {}
    /\ pc' = "call_get_response"
    /\ UNCHANGED <<db, inflight, init_result, last_outcome, returned, ok_handles, probed,
                   n_connects, q_in, q_out>>

\* The argument st.session_state.db of the call in line 159: Streamlit raises
\* AttributeError for a key that was never set, and the script run ends.
ReadSessionDb ==
    /\ pc = "call_get_response"
    /\ IF db = {}
       THEN /\ exc' = "AttributeError"
            /\ pc' = "idle"
            /\ fn_db' = fn_db
       ELSE /\ exc' = exc
            /\ pc' = "get_response"
            /\ fn_db' = db
    /\ UNCHANGED <<chat_history, db, user_query, prompt1, gen_query, schema_job,
                   response_job, assigned, prompt2, answer, errors, steps,
                   inflight, failed, last_run, init_result, last_outcome, submitted, returned,
                   ok_handles, probed, n_connects, q_in, q_out>>

\* get_response up to the try: get_sql_chain(db), the two templates and the
\* two ChatGroq clients.  ChatGroq(...) raises when the client cannot be
\* built (no API key in the environment); nothing encloses these lines.
BuildChain(built) ==
    /\ pc = "get_response"
    /\ IF built
       THEN /\ pc' = "get_schema"
            /\ UNCHANGED <<exc, failed, fn_db>>
       ELSE /\ pc' = "idle"
            /\ exc' = "ChatGroq"
            /\ failed' = failed \cup {"clients"}
            /\ fn_db' = {}
    /\ UNCHANGED <<chat_history, db, user_query, prompt1, gen_query,
                   schema_job, response_job, assigned, prompt2, answer, errors,
                   steps, inflight, last_run, init_result, last_outcome, submitted, returned,
                   ok_handles, probed, n_connects, q_in, q_out>>

\* sql_chain, first stage: assign(schema=get_schema)
get_schema(ok) ==
    /\ pc = "get_schema"
    /\ steps' = Append(steps, Step("get_table_info", fn_db, <<>>))
    /\ IF ok
       THEN /\ prompt1' = [schema |-> SchemaText, question |-> user_query]
            /\ UNCHANGED <<errors, failed>>
       ELSE /\ prompt1' = [schema |-> "", question |-> user_query]
            /\ errors' = Append(errors, E_SCHEMA)
            /\ failed' = failed \cup {"schema1"}
    /\ pc' = "llm1"
    /\ UNCHANGED <<chat_history, db, user_query, fn_db, gen_query, schema_job,
                   response_job, assigned, prompt2, answer, inflight, exc,
                   last_run, init_result, last_outcome, submitted, returned, ok_handles,
                   probed, n_connects, q_in, q_out>>

\* sql_chain, remaining stages: prompt | llm | StrOutputParser(); on success
\* the outer chain goes on to the two-key assign and submits its two jobs.
sql_chain_llm(ok) ==
    /\ pc = "llm1"
    /\ steps' = Append(steps, Step("llm", {}, <<>>))
    /\ IF ok
       THEN /\ \E q \in GeneratedQueries : gen_query' = q
            /\ schema_job' = "submitted"
            /\ response_job' = "submitted"
            /\ pc' = "assign"
            /\ failed' = failed
       ELSE /\ failed' = failed \cup {"llm1"}
            /\ pc' = "except"
            /\ UNCHANGED <<gen_query, schema_job, response_job>>
    /\ UNCHANGED <<chat_history, db, user_query, fn_db, prompt1, assigned,
                   prompt2, answer, errors, inflight, exc, last_run,
                   init_result, last_outcome, submitted, returned, ok_handles, probed,
                   n_connects, q_in, q_out>>

\* schema=lambda _: db.get_table_info()
schema_job_start ==
    /\ pc = "assign"
    /\ schema_job = "submitted"
    /\ schema_job' = "running"
    /\ steps' = Append(steps, Step("get_table_info", fn_db, <<>>))
    /\ inflight' = inflight \cup {"get_table_info"}
    /\ UNCHANGED <<chat_history, db, pc, user_query, fn_db, prompt1, gen_query,
                   response_job, assigned, prompt2, answer, errors, failed, exc,
                   last_run, init_result, last_outcome, submitted, returned, ok_handles,
                   probed, n_connects, q_in, q_out>>

schema_job_end(ok) ==
    /\ pc = "assign"
    /\ schema_job = "running"
    /\ inflight' = inflight \ {"get_table_info"}
    /\ IF ok
       THEN /\ schema_job' = "returned"
            /\ assigned' = [assigned EXCEPT !.schema = SchemaText]
            /\ failed' = failed
       ELSE /\ schema_job' = "raised"
            /\ assigned' = assigned
            /\ failed' = failed \cup {"schema2"}
    /\ UNCHANGED <<chat_history, db, pc, user_query, fn_db, prompt1, gen_query,
                   response_job, prompt2, answer, errors, steps, exc, last_run,
                   init_result, last_outcome, submitted, returned, ok_handles, probed,
                   n_connects, q_in, q_out>>

\* response=lambda vars: run_query(vars["query"])
run_query_start ==
    /\ pc = "assign"
    /\ response_job = "submitted"
    /\ response_job' = "running"
    /\ steps' = Append(steps, Step("run", fn_db, clean_sql_query(gen_query)))
    /\ inflight' = inflight \cup {"run"}
    /\ UNCHANGED <<chat_history, db, pc, user_query, fn_db, prompt1, gen_query,
                   schema_job, assigned, prompt2, answer, errors, failed, exc,
                   last_run, init_result, last_outcome, submitted, returned, ok_handles,
                   probed, n_connects, q_in, q_out>>

RunOutcomes == {"ok", "ProgrammingError", "Exception"}

run_query_end(outcome) ==
    /\ pc = "assign"
    /\ response_job = "running"
    /\ inflight' = inflight \ {"run"}
    /\ response_job' = "returned"
    /\ IF outcome = "ok"
       THEN /\ assigned' = [assigned EXCEPT !.response = Rows]
            /\ UNCHANGED <<errors, failed>>
       ELSE /\ assigned' = [assigned EXCEPT !.response = ""]
            /\ errors' = Append(errors, IF outcome = "ProgrammingError"
                                        THEN E_SQL ELSE E_RUN)
            /\ failed' = failed \cup {"run"}
    /\ UNCHANGED <<chat_history, db, pc, user_query, fn_db, prompt1, gen_query,
                   schema_job, prompt2, answer, steps, exc, last_run,
                   init_result, last_outcome, submitted, returned, ok_handles, probed,
                   n_connects, q_in, q_out>>

\* JoinEarly is a faulty variant of Join that does not wait for run_query.
JoinEarly ==
    /\ pc = "assign"
    /\ schema_job \in {"returned", "raised"}
    /\ IF schema_job = "raised"
       THEN /\ pc' = "except"
            /\ prompt2' = prompt2
       ELSE /\ pc' = "llm2"
            /\ prompt2' = [schema |-> assigned.schema, query |-> gen_query,
                           response |-> assigned.response]
    /\ UNCHANGED <<chat_history, db, user_query, fn_db, prompt1, gen_query,
                   schema_job, response_job, assigned, answer, errors, steps,
                   inflight, failed, exc, last_run, init_result, last_outcome,
                   submitted, returned, ok_handles, probed, n_connects, q_in,
                   q_out>>

\* RunnableParallel collects future.result() in key order and leaves the
\* executor only when every job has ended; an exception of a job is raised
\* to chain.invoke.
Join ==
    /\ pc = "assign"
    /\ schema_job \in {"returned", "raised"}
    /\ response_job = "returned"
    /\ IF schema_job = "raised"
       THEN /\ pc' = "except"
            /\ prompt2' = prompt2
       ELSE /\ pc' = "llm2"
            /\ prompt2' = [schema |-> assigned.schema, query |-> gen_query,
                           response |-> assigned.response]
    /\ UNCHANGED <<chat_history, db, user_query, fn_db, prompt1, gen_query,
                   schema_job, response_job, assigned, answer, errors, steps,
                   inflight, failed, exc, last_run, init_result, last_outcome, submitted,
                   returned, ok_handles, probed, n_connects, q_in, q_out>>

\* prompt | llm | StrOutputParser() of get_response
answer_llm(ok) ==
    /\ pc = "llm2"
    /\ steps' = Append(steps, Step("llm", {}, <<>>))
    /\ IF ok
       THEN /\ \E c \in Completions : answer' = c
            /\ pc' = "return"
            /\ failed' = failed
       ELSE /\ failed' = failed \cup {"llm2"}
            /\ pc' = "except"
            /\ answer' = answer
    /\ UNCHANGED <<chat_history, db, user_query, fn_db, prompt1, gen_query,
                   schema_job, response_job, assigned, prompt2, errors,
                   inflight, exc, last_run, init_result, last_outcome, submitted, returned,
                   ok_handles, probed, n_connects, q_in, q_out>>

\* except Exception of get_response
Except ==
    /\ pc = "except"
    /\ errors' = Append(errors, E_PROCESS)
    /\ answer' = ""
    /\ pc' = "return"
    /\ UNCHANGED <<chat_history, db, user_query, fn_db, prompt1, gen_query,
                   schema_job, response_job, assigned, prompt2, steps, inflight,
                   failed, exc, last_run, init_result, last_outcome, last_outcome, submitted, returned,
                   ok_handles, probed, n_connects, q_in, q_out>>

\* handle_user_query after get_response returned; the locals of the call
\* are gone once it has returned.
AppendAnswer ==
    /\ pc = "return"
    /\ chat_history' = Append(chat_history, AIMessage(answer))
    /\ returned' = Append(returned, answer)
    /\ pc' = "idle"
    /\ fn_db' = {}
    /\ prompt1' = NotRendered1
    /\ gen_query' = <<>>
    /\ schema_job' = "none"
    /\ response_job' = "none"
    /\ assigned' = NotAssigned
    /\ prompt2' = NotRendered
    /\ steps' = <<>>
    /\ UNCHANGED <<db, user_query, answer, errors, inflight, failed, exc,
                   last_run, init_result, last_outcome, submitted, ok_handles,
                   probed, n_connects, q_in, q_out>>

(***************************************************************************)
(* clean_sql_query applied to an arbitrary string, and to its own result   *)
(***************************************************************************)
Unapplied == <<"?">>

Clean ==
    /\ q_out = Unapplied
    /\ q_out' = clean_sql_query(q_in)
    /\ UNCHANGED <<q_in, sessionVars>>

Feed ==
    /\ q_out # Unapplied
    /\ q_in # q_out
    /\ q_in' = q_out
    /\ q_out' = Unapplied
    /\ UNCHANGED sessionVars

SessionInit ==
    /\ chat_history = <<Greeting>>
    /\ db = {}
    /\ pc = "idle"
    /\ user_query = ""
    /\ fn_db = {}
    /\ prompt1 = NotRendered1
    /\ gen_query = <<>>
    /\ schema_job = "none"
    /\ response_job = "none"
    /\ assigned = NotAssigned
    /\ prompt2 = NotRendered
    /\ answer = ""
    /\ errors = <<>>
    /\ steps = <<>>
    /\ inflight = {}
    /\ failed = {}
    /\ exc = "none"
    /\ last_run = "none"
    /\ init_result = {}
    /\ last_outcome = "none"
    /\ submitted = <<>>
    /\ returned = <<>>
    /\ ok_handles = <<>>
    /\ probed = {}
    /\ n_connects = 0

Init ==
    /\ SessionInit
    /\ q_in = <<>>
    /\ q_out = Unapplied

Next ==
    \/ \E p \in Params, outcome \in ConnectOutcomes : Connect(p, outcome)
    \/ \E text \in Texts : Submit(text)
    \/ ReadSessionDb
    \/ \E built \in BOOLEAN : BuildChain(built)
    \/ \E ok \in BOOLEAN : get_schema(ok)
    \/ \E ok \in BOOLEAN : sql_chain_llm(ok)
    \/ schema_job_start
    \/ \E ok \in BOOLEAN : schema_job_end(ok)
    \/ run_query_start
    \/ \E outcome \in RunOutcomes : run_query_end(outcome)
    \/ Join
    \/ \E ok \in BOOLEAN : answer_llm(ok)
    \/ Except
    \/ AppendAnswer

Spec == Init /\ [][Next]_vars

InitClean ==
    /\ SessionInit
    /\ q_in \in Strings(MaxLen)
    /\ q_out = Unapplied

NextClean == Clean \/ Feed

SpecClean == InitClean /\ [][NextClean]_vars

(***************************************************************************)
(* Properties                                                              *)
(***************************************************************************)
IsDbOp(s) == s.op \in {"get_table_info", "run"}
ConnectFailedStep == n_connects' # n_connects /\ last_outcome' # "ok"
Surfaced(msgs) == \E i \in 1..Len(errors) : errors[i] \in msgs

\* C1: whenever the session awaits input, the history is the greeting
\* followed by one (Human, AI) pair per submitted message, in submission
\* order, the AI message being the value get_response returned for it;
\* 2N+1 messages after N submissions, whatever connects happened.
C1_HistoryIsGreetingPlusPairs ==
    pc = "idle" =>
        /\ Len(chat_history) = 2 * Len(submitted) + 1
        /\ Len(returned) = Len(submitted)
        /\ chat_history[1] = Greeting
        /\ \A i \in 1..Len(submitted) :
            /\ chat_history[2 * i] = HumanMessage(submitted[i])
            /\ chat_history[2 * i + 1] = AIMessage(returned[i])

\* C2 (as claimed): after a connect run whose from_uri or probe failed,
\* init_database returned None and exactly one error message was emitted.
C2_FailedConnectOneError ==
    (pc = "idle" /\ last_run = "connect" /\ last_outcome # "ok") =>
        /\ init_result = {}
        /\ Len(errors) = 1

\* C2 (amended): a connect run whose from_uri or probe fails returns None
\* from init_database, leaves the session handle as it was, and emits exactly
\* two error messages: the one of init_database (configuration or
\* unexpected), then the generic one of the connect handler.
C2_FailedConnectTwoErrors ==
    [][ConnectFailedStep =>
            /\ init_result' = {}
            /\ db' = db
            /\ Len(errors') = 2
            /\ errors'[1] \in {E_CONFIG, E_UNEXPECTED}
            /\ errors'[2] = E_CONNECT]_vars

C2_Witness ==
    /\ pc = "idle"
    /\ last_run = "connect"
    /\ last_outcome = "probe:ProgrammingError"
    /\ db # {}
    /\ errors = <<E_CONFIG, E_CONNECT>>

\* C3: after two successful connects with different parameters the session
\* handle is the one of the second connect, and every schema retrieval and
\* SQL execution of a turn in progress is on that handle, never on the first.
C3_QueriesUseSecondHandle ==
    LET n == Len(ok_handles) IN
    (n >= 2 /\ ok_handles[n] # ok_handles[n - 1]) =>
        /\ db = {ok_handles[n]}
        /\ pc # "idle" =>
            \A i \in 1..Len(steps) :
                IsDbOp(steps[i]) =>
                    /\ steps[i].h = {ok_handles[n]}
                    /\ steps[i].h # {ok_handles[n - 1]}

C3_Witness ==
    /\ Len(ok_handles) = 2
    /\ ok_handles[1] # ok_handles[2]
    /\ pc = "return"
    /\ Len(steps) = 5
    /\ \A i \in {1, 3, 4} : steps[i].h = {ok_handles[2]}

\* C4: get_response never raises to its caller: whichever of its steps
\* fails, no exception leaves it, an error is surfaced, and unless the step
\* recovered locally (get_schema, run_query) the value returned is "".
C4_GetResponseNeverRaises ==
    (last_run = "query" /\ pc \in {"idle", "return"} /\ failed # {}) =>
        /\ exc = "none"
        /\ errors # <<>>
        /\ failed \cap {"clients", "llm1", "schema2", "llm2"} # {} =>
            /\ answer = ""
            /\ Surfaced({E_PROCESS})

\* C5: when db.run raises, run_query surfaces an error and yields "", and
\* the turn goes on to answer synthesis: the second prompt is rendered with
\* response = "" and, if that LLM call completes, its completion is what
\* get_response returns.
C5_RunFailureContinuesToSynthesis ==
    (pc = "return" /\ "run" \in failed) =>
        /\ Surfaced({E_SQL, E_RUN})
        /\ assigned.response = ""
        /\ prompt2 # NotRendered
        /\ prompt2.response = ""
        /\ "llm2" \notin failed => answer \in Completions

\* C6: when either schema retrieval of a turn fails, the failure is
\* surfaced, the schema bound into the following prompt is "", and the
\* following LLM call is made.
C6_SchemaFailureContinues ==
    pc = "return" =>
        /\ "schema1" \in failed =>
            /\ Surfaced({E_SCHEMA})
            /\ prompt1.schema = ""
            /\ Len(steps) >= 2 /\ steps[2].op = "llm"
        /\ "schema2" \in failed =>
            /\ Surfaced({E_SCHEMA})
            /\ prompt2 # NotRendered
            /\ prompt2.schema = ""
            /\ steps[Len(steps)].op = "llm"

\* C7: clean_sql_query(q) has no backslash, is a fixed point of
\* clean_sql_query, equals q when q has no backslash, and is q's
\* non-backslash characters in their original order.
NotBackslash(c) == c # BS
HasBackslash(s) == \E i \in 1..Len(s) : s[i] = BS

C7_CleanIdempotent ==
    q_out # Unapplied =>
        /\ ~HasBackslash(q_out)
        /\ clean_sql_query(q_out) = q_out
        /\ ~HasBackslash(q_in) => q_out = q_in
        /\ q_out = SelectSeq(q_in, NotBackslash)

C7_Witness ==
    /\ q_out # Unapplied
    /\ Len(q_in) >= 3
    /\ Len(q_out) = 1
    /\ q_in[1] = BS

\* C8: no script run ends with an uncaught exception, in any session state,
\* a session without a stored handle included.
C8_NoUncaughtException == exc = "none"

\* C9 (as claimed): the operations of a turn start in the order schema
\* fetch, LLM call, SQL execution, schema fetch, LLM call, and no two
\* accesses to the handle are in flight together.
ClaimedOrder == <<"get_table_info", "llm", "run", "get_table_info", "llm">>

C10_FailedConnectChangesNothing ==
    /\ [][ConnectFailedStep => (db' = db /\ chat_history' = chat_history)]_vars
    /\ [](db \subseteq probed)
    /\ [](pc \notin {"idle", "call_get_response"} => (fn_db = db /\ fn_db # {}))

C10_Witness ==
    /\ last_outcome \in {"from_uri:Exception", "probe:Exception"}
    /\ Len(ok_handles) = 1
    /\ db = {ok_handles[1]}
    /\ pc = "return"
    /\ Len(steps) >= 4
    /\ steps[3].h = db
====
